---- MODULE Spec2Model ----
(***************************************************************************)
(* Model of rusty-roguelike (src/src/main.rs): the dungeon generator       *)
(* make_map, the Rect geometry, the carving helpers, Object::move_by and   *)
(* the session loop of main with handle_keys.                              *)
(*                                                                         *)
(* The grid and room dimensions are scaled down from the program's         *)
(* (80 x 45 map, rooms of 6..10, 30 attempts); the code is otherwise       *)
(* translated statement by statement.                                      *)
(***************************************************************************)
EXTENDS Integers, Sequences, FiniteSets

\* ---------------------------------------------------------------- sizes
\* main.rs:8-9 (80, 50), scaled.
SCREEN_WIDTH == 9
SCREEN_HEIGHT == 6
\* main.rs:15-16 (80, 45), scaled.
MAP_WIDTH == 9
MAP_HEIGHT == 5
\* main.rs:35-37 (10, 6, 30), scaled. As in the program, ROOM_MIN_SIZE >= 2 (a room
\* has an interior, and its center lies in it) and ROOM_MAX_SIZE < MAP_WIDTH, MAP_HEIGHT
\* (every gen_range is non-empty).
ROOM_MAX_SIZE == 3
ROOM_MIN_SIZE == 2
MAX_ROOMS == 3
\* main.rs:215: the literal 5 in SCREEN_WIDTH / 2 - 5, scaled.
NPC_SHIFT == 1

VARIABLES
    pc,                         \* position in main: "make_map", "render", "keys", "done", "panic"
    map,                        \* map[x][y], a Tile
    rooms,                      \* make_map: the accepted rooms, in order
    starting_position,          \* make_map: the spawn point
    attempts,                   \* make_map: iterations of the loop done so far
    new_room,                   \* make_map: the candidate of the last iteration
    tunnels,                    \* history: the create_h_tunnel / create_v_tunnel calls made
    objects,                    \* main: <<player, npc>>, each [x, y]
    previous_player_position,   \* main
    fov_recompute,              \* main: the flag handed to render_all by the last frame
    fov_center,                 \* where compute_fov was last run, NoPos before the first run
    key                         \* handle_keys: the key last returned by wait_for_keypress

vars == <<pc, map, rooms, starting_position, attempts, new_room, tunnels,
          objects, previous_player_position, fov_recompute, fov_center, key>>

\* ---------------------------------------------------------------- Tile
Tile_empty == [blocked |-> FALSE, block_sight |-> FALSE]

Tile_wall == [blocked |-> TRUE, block_sight |-> TRUE]

Xs == 0 .. (MAP_WIDTH - 1)

Ys == 0 .. (MAP_HEIGHT - 1)

InBounds(x, y) == x \in Xs /\ y \in Ys

\* ---------------------------------------------------------------- Rect
Rect_new(x, y, w, h) == [x1 |-> x, y1 |-> y, x2 |-> x + w, y2 |-> y + h]

\* A slip of precedence: x1 + x2 / 2.
center_precedence(r) == <<r.x1 + r.x2 \div 2, r.y1 + r.y2 \div 2>>

center(r) == <<(r.x1 + r.x2) \div 2, (r.y1 + r.y2) \div 2>>

\* Strict comparisons: rooms that share a boundary line pass.
intersects_with_strict(self, other) ==
    /\ self.x1 < other.x2
    /\ self.x2 > other.x1
    /\ self.y1 < other.y2
    /\ self.y2 > other.y1

intersects_with(self, other) ==
    /\ self.x1 <= other.x2
    /\ self.x2 >= other.x1
    /\ self.y1 <= other.y2
    /\ self.y2 >= other.y1

NoRect == [x1 |-> -1, y1 |-> -1, x2 |-> -1, y2 |-> -1]

NoPos == <<-1, -1>>

\* ---------------------------------------------------------------- carving
Min(a, b) == IF a < b THEN a ELSE b

Max(a, b) == IF a > b THEN a ELSE b

\* The carve starts on the boundary: for x in room.x1..room.x2.
create_room_from_x1(room, m) ==
    [x \in Xs |-> [y \in Ys |->
        IF /\ room.x1 <= x /\ x < room.x2
           /\ room.y1 <= y /\ y < room.y2
        THEN Tile_empty ELSE m[x][y]]]

\* The carve ends on the boundary: for x in (room.x1 + 1)..=room.x2.
create_room_closed(room, m) ==
    [x \in Xs |-> [y \in Ys |->
        IF /\ room.x1 + 1 <= x /\ x <= room.x2
           /\ room.y1 + 1 <= y /\ y <= room.y2
        THEN Tile_empty ELSE m[x][y]]]

\* for x in (room.x1 + 1)..room.x2, for y in (room.y1 + 1)..room.y2
create_room(room, m) ==
    [x \in Xs |-> [y \in Ys |->
        IF /\ room.x1 + 1 <= x /\ x < room.x2
           /\ room.y1 + 1 <= y /\ y < room.y2
        THEN Tile_empty ELSE m[x][y]]]

\* for x in min(x1, x2)..(max(x1, x2) + 1)
create_h_tunnel(x1, x2, y, m) ==
    [x \in Xs |-> [yy \in Ys |->
        IF yy = y /\ Min(x1, x2) <= x /\ x < Max(x1, x2) + 1
        THEN Tile_empty ELSE m[x][yy]]]

\* for y in min(y1, y2)..(max(y1, y2) + 1)
create_v_tunnel(y1, y2, x, m) ==
    [xx \in Xs |-> [yy \in Ys |->
        IF xx = x /\ Min(y1, y2) <= yy /\ yy < Max(y1, y2) + 1
        THEN Tile_empty ELSE m[xx][yy]]]

\* An inclusive upper end.
gen_range_inclusive(low, high) == low .. high

\* rng.gen_range(low, high): low <= value < high
gen_range(low, high) == low .. (high - 1)

\* ---------------------------------------------------------------- make_map
Init ==
    /\ pc = "make_map"
    /\ map = [x \in Xs |-> [y \in Ys |-> Tile_wall]]
    /\ rooms = <<>>
    /\ starting_position = <<0, 0>>
    /\ attempts = 0
    /\ new_room = NoRect
    /\ tunnels = <<>>
    /\ objects = <<>>
    /\ previous_player_position = NoPos
    /\ fov_recompute = FALSE
    /\ fov_center = NoPos
    /\ key = "none"

\* The second segment runs along the previous room's column or row.
TunnelCalls_wrong_corner(coin, prev, new) ==
    IF coin
    THEN << [kind |-> "h", a |-> prev[1], b |-> new[1], c |-> prev[2]],
            [kind |-> "v", a |-> prev[2], b |-> new[2], c |-> prev[1]] >>
    ELSE << [kind |-> "v", a |-> prev[2], b |-> new[2], c |-> prev[1]],
            [kind |-> "h", a |-> prev[1], b |-> new[1], c |-> prev[2]] >>

\* The tunnel calls of the two coin outcomes, as <<kind, from, to, fixed>>.
TunnelCalls(coin, prev, new) ==
    IF coin
    THEN << [kind |-> "h", a |-> prev[1], b |-> new[1], c |-> prev[2]],
            [kind |-> "v", a |-> prev[2], b |-> new[2], c |-> new[1]] >>
    ELSE << [kind |-> "v", a |-> prev[2], b |-> new[2], c |-> prev[1]],
            [kind |-> "h", a |-> prev[1], b |-> new[1], c |-> new[2]] >>

ApplyTunnel(t, m) ==
    IF t.kind = "h" THEN create_h_tunnel(t.a, t.b, t.c, m)
                    ELSE create_v_tunnel(t.a, t.b, t.c, m)

\* One iteration of the loop `for _ in 0..MAX_ROOMS`; the coin is drawn only when a
\* room after the first is accepted.
make_map_iteration ==
    /\ pc = "make_map"
    /\ attempts < MAX_ROOMS
    /\ \E w \in gen_range(ROOM_MIN_SIZE, ROOM_MAX_SIZE + 1),
          h \in gen_range(ROOM_MIN_SIZE, ROOM_MAX_SIZE + 1) :
       \E x \in gen_range(0, MAP_WIDTH - w),
          y \in gen_range(0, MAP_HEIGHT - h) :
        LET room == Rect_new(x, y, w, h)
            failed == \E i \in 1 .. Len(rooms) : intersects_with(room, rooms[i])
            carved == create_room(room, map)
            new == center(room)
        IN  /\ new_room' = room
            /\ attempts' = attempts + 1
            /\ IF failed
               THEN UNCHANGED <<map, rooms, starting_position, tunnels>>
               ELSE IF rooms = <<>>
               THEN /\ starting_position' = new
                    /\ map' = carved
                    /\ rooms' = Append(rooms, room)
                    /\ UNCHANGED tunnels
               ELSE \E coin \in BOOLEAN :
                    LET prev == center(rooms[Len(rooms)])
                        calls == TunnelCalls(coin, prev, new)
                    IN  /\ map' = ApplyTunnel(calls[2], ApplyTunnel(calls[1], carved))
                        /\ tunnels' = tunnels \o calls
                        /\ rooms' = Append(rooms, room)
                        /\ UNCHANGED starting_position
    /\ UNCHANGED <<pc, objects, previous_player_position, fov_recompute, fov_center, key>>

\* ---------------------------------------------------------------- main
Object_new(x, y) == [x |-> x, y |-> y]

\* make_map returns; main builds the objects and enters the loop.
main_setup ==
    /\ pc = "make_map"
    /\ attempts = MAX_ROOMS
    /\ objects' = << Object_new(starting_position[1], starting_position[2]),
                     Object_new(SCREEN_WIDTH \div 2 - NPC_SHIFT, SCREEN_HEIGHT \div 2) >>
    /\ previous_player_position' = NoPos
    /\ new_room' = NoRect
    /\ pc' = "render"
    /\ UNCHANGED <<map, rooms, starting_position, attempts, tunnels,
                   fov_recompute, fov_center, key>>

Pos(o) == <<o.x, o.y>>

\* Recompute on every frame.
FovRecompute_always == TRUE

\* Line 241: let fov_recompute = previous_player_position != (objects[0].x, objects[0].y)
FovRecompute == previous_player_position # Pos(objects[1])

\* Lines 238-251: the frame; render_all runs compute_fov at the player when told to.
render_frame ==
    /\ pc = "render"
    /\ LET recompute == FovRecompute
       IN  /\ fov_recompute' = recompute
           /\ fov_center' = IF recompute THEN Pos(objects[1]) ELSE fov_center
    /\ pc' = "keys"
    /\ UNCHANGED <<map, rooms, starting_position, attempts, new_room, tunnels,
                   objects, previous_player_position, key>>

\* while !root.window_closed()
window_closed ==
    /\ pc = "render"
    /\ pc' = "done"
    /\ UNCHANGED <<map, rooms, starting_position, attempts, new_room, tunnels,
                   objects, previous_player_position, fov_recompute, fov_center, key>>

Keys == {"AltEnter", "Escape", "Up", "Down", "Left", "Right", "Other"}

MoveKeys == {"Up", "Down", "Left", "Right"}

Offset(k) ==
    CASE k = "Up" -> <<0, -1>>
      [] k = "Down" -> <<0, 1>>
      [] k = "Left" -> <<-1, 0>>
      [] k = "Right" -> <<1, 0>>

\* The move is committed without looking at the tile.
move_by_unchecked(self, dx, dy, m) ==
    [self EXCEPT !.x = self.x + dx, !.y = self.y + dy]

\* Object::move_by; the index is checked before the tile is read.
move_by(self, dx, dy, m) ==
    IF ~m[self.x + dx][self.y + dy].blocked
    THEN [self EXCEPT !.x = self.x + dx, !.y = self.y + dy]
    ELSE self

\* Lines 254-259 with handle_keys.
handle_keys ==
    /\ pc = "keys"
    /\ \E k \in Keys :
        LET player == objects[1]
        IN  /\ key' = k
            /\ previous_player_position' = Pos(player)
            /\ IF k \in MoveKeys
               THEN LET d == Offset(k)
                    IN  IF InBounds(player.x + d[1], player.y + d[2])
                        THEN /\ objects' = [objects EXCEPT ![1] = move_by(player, d[1], d[2], map)]
                             /\ pc' = "render"
                        ELSE /\ pc' = "panic"
                             /\ UNCHANGED objects
               ELSE /\ UNCHANGED objects
                    /\ pc' = IF k = "Escape" THEN "done" ELSE "render"
    /\ UNCHANGED <<map, rooms, starting_position, attempts, new_room, tunnels,
                   fov_recompute, fov_center>>

Next ==
    \/ make_map_iteration
    \/ main_setup
    \/ render_frame
    \/ window_closed
    \/ handle_keys

Spec == Init /\ [][Next]_vars

\* ---------------------------------------------------------------- helpers of the properties
Cells == Xs \X Ys

Blocked(c) == map[c[1]][c[2]].blocked

Neighbours(c) ==
    {<<c[1] + 1, c[2]>>, <<c[1] - 1, c[2]>>, <<c[1], c[2] + 1>>, <<c[1], c[2] - 1>>} \cap Cells

\* Flood fill: seen is what has been reached, frontier what was reached last.
RECURSIVE Flood(_, _)
Flood(seen, frontier) ==
    LET next == {c \in UNION {Neighbours(f) : f \in frontier} : ~Blocked(c)} \ seen
    IN  IF next = {} THEN seen ELSE Flood(seen \cup next, next)

\* The cells reachable from the spawn point over 4-adjacent unblocked tiles.
ReachableFromSpawn ==
    IF starting_position \in Cells /\ ~Blocked(starting_position)
    THEN Flood({starting_position}, {starting_position}) ELSE {}

Interior(r) == {c \in Cells : r.x1 + 1 <= c[1] /\ c[1] <= r.x2 - 1
                              /\ r.y1 + 1 <= c[2] /\ c[2] <= r.y2 - 1}

AllInteriors == UNION {Interior(rooms[i]) : i \in 1 .. Len(rooms)}

\* The cells of a recorded tunnel call, both endpoints included.
SegmentCells(t) ==
    IF t.kind = "h"
    THEN {c \in Cells : c[2] = t.c /\ Min(t.a, t.b) <= c[1] /\ c[1] <= Max(t.a, t.b)}
    ELSE {c \in Cells : c[1] = t.c /\ Min(t.a, t.b) <= c[2] /\ c[2] <= Max(t.a, t.b)}

AllTunnelCells == UNION {SegmentCells(tunnels[i]) : i \in 1 .. Len(tunnels)}

Midpoint(r) == <<(r.x1 + r.x2) \div 2, (r.y1 + r.y2) \div 2>>

InMakeMap == pc = "make_map"

Returned == pc = "make_map" /\ attempts = MAX_ROOMS

InSession == pc \in {"render", "keys", "done", "panic"}

PlayerPos == Pos(objects[1])

Plus(p, d) == <<p[1] + d[1], p[2] + d[2]>>

\* ---------------------------------------------------------------- C1
\* C1: after every iteration of make_map's loop, and so in the dungeon it returns,
\* the center of every accepted room is reachable from the spawn point by a path
\* of 4-adjacent tiles whose blocked flag is false.
C1_Connected ==
    InMakeMap => \A i \in 1 .. Len(rooms) : Midpoint(rooms[i]) \in ReachableFromSpawn

\* A returned dungeon of three rooms, the last joined to its predecessor by a
\* tunnel that turns a corner.
C1_Witness ==
    /\ Returned
    /\ Len(rooms) = 3
    /\ Midpoint(rooms[3])[1] # Midpoint(rooms[2])[1]
    /\ Midpoint(rooms[3])[2] # Midpoint(rooms[2])[2]
    /\ Midpoint(rooms[3]) \in ReachableFromSpawn

\* ---------------------------------------------------------------- C2
\* C2: at every point of make_map's loop and in its result, no two distinct accepted
\* rooms overlap or share a boundary line: for each pair,
\* x1 <= o.x2 /\ x2 >= o.x1 /\ y1 <= o.y2 /\ y2 >= o.y1 is false.
C2_NoOverlap ==
    \A i, j \in 1 .. Len(rooms) :
        i # j => ~( /\ rooms[i].x1 <= rooms[j].x2
                    /\ rooms[i].x2 >= rooms[j].x1
                    /\ rooms[i].y1 <= rooms[j].y2
                    /\ rooms[i].y2 >= rooms[j].y1 )

\* Two rooms are accepted and the candidate of the last iteration was rejected.
C2_Witness ==
    /\ InMakeMap
    /\ Len(rooms) = 2
    /\ attempts = 3
    /\ new_room # rooms[2]
    /\ \E i \in 1 .. 2 : intersects_with(new_room, rooms[i])

C4_EntitiesOnFloor ==
    InSession =>
        \A i \in 1 .. Len(objects) :
            /\ InBounds(objects[i].x, objects[i].y)
            /\ ~map[objects[i].x][objects[i].y].blocked

\* ---------------------------------------------------------------- C5
\* C5: move_by(dx, dy) on the player: when the tile at (x+dx, y+dy) is unblocked the
\* position becomes exactly (x+dx, y+dy), otherwise it is unchanged and nothing
\* fails; the resulting tile is never blocked and the grid is unchanged.
C5_MoveBy ==
    [][ (pc = "keys" /\ key' \in MoveKeys) =>
            LET p == PlayerPos
                q == Plus(p, Offset(key'))
                r == Pos(objects'[1])
            IN  /\ q \in Cells
                /\ pc' = "render"
                /\ r = (IF ~Blocked(q) THEN q ELSE p)
                /\ r \in Cells
                /\ ~map'[r[1]][r[2]].blocked
                /\ map' = map
      ]_vars

\* The player has left the spawn point and the last move ran into a wall.
C5_Witness ==
    /\ pc = "render"
    /\ key \in MoveKeys
    /\ PlayerPos = previous_player_position
    /\ PlayerPos # starting_position
    /\ Blocked(Plus(PlayerPos, Offset(key)))

\* ---------------------------------------------------------------- C7
\* C7: a frame recomputes the visibility field iff the player's position differs
\* from the one recorded just before the previous input was handled: the first
\* frame recomputes, a turn that does not move the player (blocked move, fullscreen
\* toggle, unmapped key) is followed by a frame that does not, and a turn that
\* moves the player by one that does.
C7_Recompute ==
    pc = "keys" =>
        /\ fov_recompute <=> (previous_player_position # PlayerPos)
        /\ key = "none" => fov_recompute
        /\ key \in {"AltEnter", "Other"} => ~fov_recompute
        /\ key \in MoveKeys =>
              (fov_recompute <=> ~Blocked(Plus(previous_player_position, Offset(key))))
        /\ fov_center = PlayerPos

\* A frame after a fullscreen toggle, away from the spawn point, that skipped the
\* recomputation.
C7_Witness ==
    /\ pc = "keys"
    /\ key = "AltEnter"
    /\ ~fov_recompute
    /\ PlayerPos # starting_position
    /\ fov_center = PlayerPos

\* ---------------------------------------------------------------- C8
\* C8: no carve of make_map writes a border cell, so every tile with x = 0,
\* x = MAP_WIDTH-1, y = 0 or y = MAP_HEIGHT-1 is a wall, and every candidate
\* rectangle has 0 <= x1 < x2 <= MAP_WIDTH-1 and 0 <= y1 < y2 <= MAP_HEIGHT-1.
C8_Border ==
    InMakeMap =>
        /\ \A c \in Cells :
              (c[1] \in {0, MAP_WIDTH - 1} \/ c[2] \in {0, MAP_HEIGHT - 1})
                  => map[c[1]][c[2]] = Tile_wall
        /\ new_room # NoRect =>
              /\ 0 <= new_room.x1 /\ new_room.x1 < new_room.x2 /\ new_room.x2 <= MAP_WIDTH - 1
              /\ 0 <= new_room.y1 /\ new_room.y1 < new_room.y2 /\ new_room.y2 <= MAP_HEIGHT - 1

\* A returned grid with rooms against the low and the high edge of the map.
C8_Witness ==
    /\ Returned
    /\ \E i, j \in 1 .. Len(rooms) :
          /\ rooms[i].x1 = 0 /\ rooms[i].y1 = 0
          /\ rooms[j].x2 = MAP_WIDTH - 1 /\ rooms[j].y2 = MAP_HEIGHT - 1

\* ---------------------------------------------------------------- C9
\* C9: make_map accepts its first candidate, so the spawn point is not the default
\* (0,0) but the center of the first accepted room, later iterations do not change
\* it, its tile is unblocked, and between 1 and MAX_ROOMS rooms are accepted.
C9_Spawn ==
    /\ [] ( (InMakeMap /\ attempts >= 1) =>
              /\ 1 <= Len(rooms) /\ Len(rooms) <= MAX_ROOMS
              /\ attempts = 1 => rooms = <<new_room>>
              /\ starting_position = Midpoint(rooms[1])
              /\ starting_position # <<0, 0>>
              /\ starting_position \in Cells
              /\ ~Blocked(starting_position) )
    /\ [][ attempts >= 1 => starting_position' = starting_position ]_vars

\* A returned dungeon whose last accepted room is not the first.
C9_Witness ==
    /\ Returned
    /\ Len(rooms) >= 2
    /\ starting_position = Midpoint(rooms[1])
    /\ starting_position # Midpoint(rooms[Len(rooms)])

\* ---------------------------------------------------------------- C10
\* C10: for any sequence of key presses from the spawn point, the destination
\* move_by indexes is inside the grid, so the lookup never fails.
C10_InBounds ==
    /\ pc # "panic"
    /\ pc = "keys" =>
          \A k \in MoveKeys : Plus(PlayerPos, Offset(k)) \in Cells

\* The player stands next to the left border and has just tried to step onto it.
C10_Witness ==
    /\ pc = "render"
    /\ key = "Left"
    /\ PlayerPos[1] = 1
    /\ PlayerPos = previous_player_position

====
